---- MODULE Spec2Model ----
(***************************************************************************)
(* Model of the real-time audio relay of live-audio-transcription-slack:   *)
(* the WebSocket gateway (src/websocket/handler.js), the Deepgram          *)
(* streaming service (src/services/deepgram-service.js), the input         *)
(* sanitiser (src/utils/security.js) and the audio chunk validator         *)
(* (src/utils/validation.js).                                              *)
(*                                                                         *)
(* Strings are sequences of one-character strings, so that the sanitiser   *)
(* and the format rules are computed character by character.               *)
(*                                                                         *)
(* The backend connection returned by deepgram.listen.live() is modelled   *)
(* as the code uses it: an object with a WebSocket readyState, send(),     *)
(* close() and 'open' / 'close' / 'error' events.  Node's event loop runs  *)
(* every callback to completion; the only suspension point of the          *)
(* connection handler is its await, which resumes in the microtask queue   *)
(* before any other event is delivered.                                    *)
(***************************************************************************)
EXTENDS Integers, Sequences, FiniteSets, TLC

\* ------------------------------------------------------------------------
\* Bounds of the model
\* ------------------------------------------------------------------------
MaxConns   == 2   \* connections accepted over the run
MaxFrames  == 2   \* binary frames received over the run
MaxControl == 2   \* text (control) messages received over the run
MaxTicks   == 1   \* clock advances, each of TickMs
MaxResults == 2   \* result and error events of the backend streams over the run
MaxEvents  == 2   \* frames, control messages, backend events and clock advances together
MaxCalls   == 5   \* calls of isRateLimited over a run of the rate limiter
MaxClock   == 6   \* milliseconds a run of the rate limiter lasts
RateMax    == 2   \* maxRequests of the rate limiting middleware
RateWindow == 2   \* windowMs of the rate limiting middleware

\* one advance of the clock: longer than maxAge, so that an entry ages out
TickMs == 31 * 60 * 1000

ConnIds == 1..MaxConns

\* ------------------------------------------------------------------------
\* Characters and strings
\* ------------------------------------------------------------------------
Lowers == <<"a","b","c","d","e","f","g","h","i","j","k","l","m",
            "n","o","p","q","r","s","t","u","v","w","x","y","z">>
Uppers == <<"A","B","C","D","E","F","G","H","I","J","K","L","M",
            "N","O","P","Q","R","S","T","U","V","W","X","Y","Z">>
Digits == {"0","1","2","3","4","5","6","7","8","9"}

LowerSet == {Lowers[i] : i \in 1..26}
UpperSet == {Uppers[i] : i \in 1..26}

\* String.prototype.toLowerCase on one character (the /i flag of a regex)
ToLower(ch) ==
  IF ch \in UpperSet THEN Lowers[CHOOSE i \in 1..26 : Uppers[i] = ch] ELSE ch

\* \w
IsWord(ch) == ch \in LowerSet \cup UpperSet \cup Digits \cup {"_"}

\* [\x00-\x1F\x7F] (the control characters the model's inputs can contain)
IsControl(ch) == ch \in {"\t", "\n", "\r"}

\* \s, and the white space String.prototype.trim removes
IsSpace(ch) == ch \in {" ", "\t", "\n", "\r"}

RECURSIVE TrimLeft(_)
TrimLeft(s) ==
  IF s # <<>> /\ IsSpace(Head(s)) THEN TrimLeft(Tail(s)) ELSE s

RECURSIVE TrimRight(_)
TrimRight(s) ==
  IF s # <<>> /\ IsSpace(s[Len(s)]) THEN TrimRight(SubSeq(s, 1, Len(s) - 1)) ELSE s

\* String.prototype.trim
Trim(s) == TrimRight(TrimLeft(s))

\* s.replace(/ch/g, rep) for a one-character pattern
RECURSIVE ReplaceChar(_, _, _)
ReplaceChar(s, ch, rep) ==
  IF s = <<>> THEN <<>>
  ELSE (IF Head(s) = ch THEN rep ELSE <<Head(s)>>) \o ReplaceChar(Tail(s), ch, rep)

\* the pattern pat (lower case) occurs in s at position i, ignoring case
MatchAt(s, i, pat) ==
  /\ i + Len(pat) - 1 <= Len(s)
  /\ \A k \in 1..Len(pat) : ToLower(s[i + k - 1]) = pat[k]

\* s without the n characters that start at position i
Cut(s, i, n) == SubSeq(s, 1, i - 1) \o SubSeq(s, i + n, Len(s))

\* /('|(\-\-)|(;)|(\||\|)|(\*|\*))/i : length of the match at position i, 0 if none
SqlPunctAt(s, i) ==
  IF s[i] \in {"'", ";", "|", "*"} THEN 1
  ELSE IF MatchAt(s, i, <<"-", "-">>) THEN 2
  ELSE 0

\* /(union|select|insert|update|delete|drop|create|alter|exec|execute)/i,
\* the alternatives in their order
SqlWords == <<
  <<"u","n","i","o","n">>, <<"s","e","l","e","c","t">>, <<"i","n","s","e","r","t">>,
  <<"u","p","d","a","t","e">>, <<"d","e","l","e","t","e">>, <<"d","r","o","p">>,
  <<"c","r","e","a","t","e">>, <<"a","l","t","e","r">>, <<"e","x","e","c">>,
  <<"e","x","e","c","u","t","e">> >>

\* length of the match of the keyword pattern at position i, 0 if none
SqlWordAt(s, i) ==
  LET hits == {k \in 1..Len(SqlWords) : MatchAt(s, i, SqlWords[k])}
  IN  IF hits = {} THEN 0
      ELSE Len(SqlWords[CHOOSE k \in hits : \A j \in hits : k <= j])

\* s.replace(pattern, '') for a pattern without the g flag: the leftmost
\* match is removed, the rest of the string is kept
RemoveFirstPunct(s) ==
  LET at == {i \in 1..Len(s) : SqlPunctAt(s, i) > 0}
  IN  IF at = {} THEN s
      ELSE LET i == CHOOSE i \in at : \A j \in at : i <= j
           IN  Cut(s, i, SqlPunctAt(s, i))

RemoveFirstWord(s) ==
  LET at == {i \in 1..Len(s) : SqlWordAt(s, i) > 0}
  IN  IF at = {} THEN s
      ELSE LET i == CHOOSE i \in at : \A j \in at : i <= j
           IN  Cut(s, i, SqlWordAt(s, i))

\* number of leading characters of s that satisfy \w, resp. \s
RECURSIVE WordRun(_)
WordRun(s) == IF s # <<>> /\ IsWord(Head(s)) THEN 1 + WordRun(Tail(s)) ELSE 0

RECURSIVE SpaceRun(_)
SpaceRun(s) == IF s # <<>> /\ IsSpace(Head(s)) THEN 1 + SpaceRun(Tail(s)) ELSE 0

\* /javascript:/gi : length of the match at the head of s, 0 if none
JsSchemeAtHead(s) ==
  IF MatchAt(s, 1, <<"j","a","v","a","s","c","r","i","p","t",":">>) THEN 11 ELSE 0

\* /on\w+\s*=/gi : length of the match at the head of s, 0 if none.  \w+ is
\* greedy and what follows it is not a word character, so the match is "on",
\* the whole run of word characters, the whole run of white space, "=".
OnHandlerAtHead(s) ==
  IF ~MatchAt(s, 1, <<"o", "n">>) THEN 0
  ELSE LET w  == WordRun(SubSeq(s, 3, Len(s)))
           sp == SpaceRun(SubSeq(s, 3 + w, Len(s)))
           e  == 3 + w + sp
       IN  IF w >= 1 /\ e <= Len(s) /\ s[e] = "=" THEN e ELSE 0

\* s.replace(/javascript:/gi, '')
RECURSIVE RemoveAllJsScheme(_)
RemoveAllJsScheme(s) ==
  IF s = <<>> THEN <<>>
  ELSE IF JsSchemeAtHead(s) > 0
       THEN RemoveAllJsScheme(SubSeq(s, JsSchemeAtHead(s) + 1, Len(s)))
       ELSE <<Head(s)>> \o RemoveAllJsScheme(Tail(s))

\* s.replace(/on\w+\s*=/gi, '')
RECURSIVE RemoveAllOnHandler(_)
RemoveAllOnHandler(s) ==
  IF s = <<>> THEN <<>>
  ELSE IF OnHandlerAtHead(s) > 0
       THEN RemoveAllOnHandler(SubSeq(s, OnHandlerAtHead(s) + 1, Len(s)))
       ELSE <<Head(s)>> \o RemoveAllOnHandler(Tail(s))

\* the five HTML escapes, in the order of the code
EscapeHtml(s) ==
  LET a == ReplaceChar(s, "<", <<"&","l","t",";">>)
      b == ReplaceChar(a, ">", <<"&","g","t",";">>)
      c == ReplaceChar(b, "\"", <<"&","q","u","o","t",";">>)
      d == ReplaceChar(c, "'", <<"&","#","x","2","7",";">>)
  IN  ReplaceChar(d, "/", <<"&","#","x","2","F",";">>)

\* s.replace(/[\x00-\x1F\x7F]/g, '')
RemoveControl(s) == SelectSeq(s, LAMBDA ch : ~IsControl(ch))

\* A query parameter as url.parse hands it over: a string, or something
\* that is not a string (absent, or an array for a repeated parameter).
Str(s)   == [isString |-> TRUE, value |-> s]
NoString == [isString |-> FALSE, value |-> <<>>]

\* sanitizeInput(input, {maxLength}) with allowHtml = false and
\* allowSpecialChars = true, the options of every caller in the gateway.
\* After the HTML escapes no "<" is left, so /<script...<\/script>/gi
\* cannot match and leaves the string as it is.
sanitizeInput(input, maxLength) ==
  IF ~input.isString \/ input.value = <<>> THEN <<>>
  ELSE LET trimmed == Trim(input.value)
           limited == IF Len(trimmed) > maxLength
                      THEN SubSeq(trimmed, 1, maxLength) ELSE trimmed
           escaped == EscapeHtml(limited)
           plain   == RemoveControl(escaped)
           sql1    == RemoveFirstPunct(plain)
           sql2    == RemoveFirstWord(sql1)
           js      == RemoveAllJsScheme(sql2)
       IN  RemoveAllOnHandler(js)

sanitizeConnectionParams(params) ==
  [channel      |-> sanitizeInput(params.channel, 100),
   session      |-> sanitizeInput(params.session, 100),
   conversation |-> sanitizeInput(params.conversation, 100),
   user         |-> sanitizeInput(params.user, 100),
   language     |-> sanitizeInput(params.language, 10),
   model        |-> sanitizeInput(params.model, 50)]

\* /^[#@]?[a-zA-Z0-9_-]+$/
ChannelFormat(s) ==
  LET body == IF s # <<>> /\ Head(s) \in {"#", "@"} THEN Tail(s) ELSE s
  IN  /\ body # <<>>
      /\ \A i \in 1..Len(body) : IsWord(body[i]) \/ body[i] = "-"

\* /^[a-z]{2}(-[A-Z]{2})?$/
LanguageFormat(s) ==
  \/ Len(s) = 2 /\ s[1] \in LowerSet /\ s[2] \in LowerSet
  \/ /\ Len(s) = 5 /\ s[1] \in LowerSet /\ s[2] \in LowerSet /\ s[3] = "-"
     /\ s[4] \in UpperSet /\ s[5] \in UpperSet

validModels ==
  { <<"n","o","v","a","-","2">>, <<"n","o","v","a">>,
    <<"e","n","h","a","n","c","e","d">>, <<"b","a","s","e">> }

\* validateConnectionParams without the test that session is present
validateConnectionParamsNoSession(params) ==
  /\ params.channel # <<>>
  /\ (params.channel # <<>> => ChannelFormat(params.channel))
  /\ (params.language # <<>> => LanguageFormat(params.language))
  /\ (params.model # <<>> => params.model \in validModels)

\* validateConnectionParams(params).isValid
validateConnectionParams(params) ==
  /\ params.channel # <<>>
  /\ params.session # <<>>
  /\ (params.channel # <<>> => ChannelFormat(params.channel))
  /\ (params.language # <<>> => LanguageFormat(params.language))
  /\ (params.model # <<>> => params.model \in validModels)


\* ------------------------------------------------------------------------
\* Audio chunk validation
\* ------------------------------------------------------------------------
maxChunkSize == 8192
minChunkSize == 160

\* validateAudioStream without the test against maxChunkSize
validateAudioStreamNoMax(length) ==
  IF length = 0 THEN FALSE
  ELSE ~(length < minChunkSize /\ length > 0)

\* validateAudioStream without the test against minChunkSize
validateAudioStreamNoMin(length) ==
  IF length = 0 THEN FALSE
  ELSE ~(length > maxChunkSize)

\* validateAudioStream(chunk, {maxChunkSize, minChunkSize}).isValid for a
\* Buffer of the given length (allowEmpty keeps its default, false)
validateAudioStream(length) ==
  IF length = 0 THEN FALSE
  ELSE /\ ~(length > maxChunkSize)
       /\ ~(length < minChunkSize /\ length > 0)

\* ------------------------------------------------------------------------
\* Inputs
\* ------------------------------------------------------------------------
Query(channel, session, language, model) ==
  [channel |-> channel, session |-> session, conversation |-> NoString,
   user |-> NoString, language |-> language, model |-> model]

chT  == Str(<<"#", "t">>)
enUS == Str(<<"e", "n", "-", "U", "S">>)
nova == Str(<<"n", "o", "v", "a">>)

\* the query strings a client presents
Queries ==
  { Query(chT, Str(<<"s", "1">>), NoString, NoString),
    Query(chT, Str(<<" ", "s", "1">>), NoString, NoString),
    Query(chT, Str(<<"s", "2">>), enUS, nova),
    Query(chT, NoString, NoString, NoString),
    Query(NoString, Str(<<"s", "1">>), NoString, NoString),
    Query(chT, Str(<<"*">>), NoString, NoString),
    Query(Str(<<"a", " ", "b">>), Str(<<"s", "1">>), NoString, NoString),
    Query(chT, Str(<<"s", "1">>), Str(<<"E", "N">>), NoString),
    Query(chT, Str(<<"s", "1">>), NoString, Str(<<"x">>)) }

\* the lengths of the binary frames a client sends
FrameLengths == {0, 159, 160, 8192, 8193}

\* the text frames a client sends: the four cases of the switch, and a
\* text that JSON.parse rejects
ControlMessages == {"start", "stop", "config", "unknown", "malformed"}

\* the session ids the DELETE /sessions/:sessionId route is called with
RouteSessionIds == { <<"s", "1">>, <<"s", "2">> }

\* ------------------------------------------------------------------------
\* State
\* ------------------------------------------------------------------------
VARIABLES
  nextId,            \* connections accepted so far; the next one gets nextId + 1 (uuidv4)
  ws,                \* ws.readyState of each client connection
  closeCode,         \* the code of the server's ws.close call, 0 if none
  hooked,            \* the message / close / error handlers are attached
  connectionState,   \* the connectionState object of each connection
  activeStreams,     \* keys of the gateway's Map; the value of key c is connectionState[c]
  readyState,        \* connection.readyState of each backend stream
  activeConnections, \* the service's Map from session id to its entry
  sent,              \* kinds of message sent to each client
  forwarded,         \* frames handed to connection.send, per backend stream
  closeRequests,     \* calls of connection.close, per backend stream
  frames,            \* binary frames received, per connection
  controls,          \* text frames received
  stoppedAt,         \* binary frames received before the first stop message, -1 if no stop
  now,               \* Date.now()
  task,              \* what the event loop is in the middle of
  pending,           \* the awaited createStreamingConnection promise
  todo,              \* keys the gateway's sweep has still to visit
  dgTodo,            \* keys the service's sweep has still to visit
  snap,              \* what the running sweep found when it started
  results,           \* 'transcript' events emitted, per backend stream
  transcripts,       \* transcript messages sent to each client
  notified,          \* calls of slackService.sendMessage, per backend stream
  errors,            \* calls of the onError callback, per connection
  slackFailures,     \* failures of slackService.sendMessage that sendToSlack logged
  slackPending,      \* calls of slackService.sendMessage not yet settled, per backend stream
  delivered,         \* the transcript messages sent to each client, in order
  clients,           \* the Map of the RateLimiter, from client id to its record
  calls              \* the calls of isRateLimited so far, with their answers

vars == <<nextId, ws, closeCode, hooked, connectionState, activeStreams,
          readyState, activeConnections, sent, forwarded, closeRequests,
          frames, controls, stoppedAt, now, task, pending, todo, dgTodo, snap,
          results, transcripts, notified, errors, slackFailures,
          slackPending, delivered, clients, calls>>

maxAge == 30 * 60 * 1000

NoParams ==
  [channel |-> <<>>, session |-> <<>>, conversation |-> <<>>,
   user |-> <<>>, language |-> <<>>, model |-> <<>>]

\* deepgramConnection is 0 for null, else the backend stream of the handle
NoState ==
  [params |-> NoParams, deepgramConnection |-> 0, isActive |-> FALSE,
   startTime |-> 0, audioChunks |-> 0, totalBytes |-> 0]

NoPending == [conn |-> 0, resolved |-> FALSE]
NoSnap    == [keys |-> {}, closes |-> [c \in ConnIds |-> 0], allOld |-> FALSE]

\* Map.prototype.set / delete
MapSet(m, k, v) == [x \in DOMAIN m \cup {k} |-> IF x = k THEN v ELSE m[x]]
MapDelete(m, k) == [x \in DOMAIN m \ {k} |-> m[x]]

RECURSIVE SumOver(_, _)
SumOver(f, S) ==
  IF S = {} THEN 0
  ELSE LET x == CHOOSE x \in S : TRUE IN f[x] + SumOver(f, S \ {x})

Init ==
  /\ nextId = 0
  /\ ws = [c \in ConnIds |-> "NONE"]
  /\ closeCode = [c \in ConnIds |-> 0]
  /\ hooked = [c \in ConnIds |-> FALSE]
  /\ connectionState = [c \in ConnIds |-> NoState]
  /\ activeStreams = {}
  /\ readyState = [c \in ConnIds |-> "NONE"]
  /\ activeConnections = <<>>
  /\ sent = [c \in ConnIds |-> {}]
  /\ forwarded = [c \in ConnIds |-> 0]
  /\ closeRequests = [c \in ConnIds |-> 0]
  /\ frames = [c \in ConnIds |-> 0]
  /\ controls = 0
  /\ stoppedAt = [c \in ConnIds |-> -1]
  /\ now = 0
  /\ task = "idle"
  /\ pending = NoPending
  /\ todo = {}
  /\ dgTodo = {}
  /\ snap = NoSnap
  /\ results = [c \in ConnIds |-> 0]
  /\ transcripts = [c \in ConnIds |-> 0]
  /\ notified = [c \in ConnIds |-> 0]
  /\ errors = [c \in ConnIds |-> 0]
  /\ slackFailures = 0
  /\ slackPending = [c \in ConnIds |-> 0]
  /\ delivered = [c \in ConnIds |-> <<>>]
  /\ clients = <<>>
  /\ calls = <<>>

\* the events of the backend streams handled so far
BackendEvents == SumOver(results, ConnIds) + SumOver(errors, ConnIds)

\* the messages, backend events and clock advances so far
Events == SumOver(frames, ConnIds) + controls + BackendEvents + (now \div TickMs)

\* ------------------------------------------------------------------------
\* The backend stream and its handle
\* ------------------------------------------------------------------------
\* a close() that starts the closing handshake whatever the state of the
\* stream
connectionCloseAnyState(rs, h) == [rs EXCEPT ![h] = "CLOSING"]

\* a close() that leaves the stream as it is
connectionCloseNoEffect(rs, h) == rs

\* connection.close() on a WebSocket: starts the closing handshake of a
\* connecting or open stream, does nothing on a closing or closed one
connectionClose(rs, h) ==
  [rs EXCEPT ![h] = IF @ \in {"CONNECTING", "OPEN"} THEN "CLOSING" ELSE @]

\* an isConnected that waits for every stream to be ready
isConnectedAll(h) == \A k \in ConnIds : readyState[k] \in {"NONE", "OPEN"}

\* Handle.isConnected(): connection.readyState === 1
isConnected(h) == readyState[h] = "OPEN"

\* the closure variable sessionId of the stream's event handlers
SessionOf(c) == connectionState[c].params.session

\* ------------------------------------------------------------------------
\* The gateway: connection setup
\* ------------------------------------------------------------------------
\* wss.on('connection'): from the start of the handler to its await, or to
\* the return after a failed validation.  createStreamingConnection has no
\* await of its own, so its body runs here; it returns a handle or throws
\* when deepgram.listen.live throws.
Connect(q) ==
  /\ task = "idle"
  /\ nextId < MaxConns
  /\ LET c      == nextId + 1
         params == sanitizeConnectionParams(q)
     IN  /\ nextId' = c
         /\ IF ~validateConnectionParams(params)
            THEN /\ ws' = [ws EXCEPT ![c] = "CLOSING"]
                 /\ closeCode' = [closeCode EXCEPT ![c] = 1008]
                 /\ UNCHANGED <<connectionState, activeStreams, readyState,
                                activeConnections, task, pending>>
            ELSE /\ ws' = [ws EXCEPT ![c] = "OPEN"]
                 /\ connectionState' = [connectionState EXCEPT ![c] =
                      [params |-> params, deepgramConnection |-> 0,
                       isActive |-> TRUE, startTime |-> now,
                       audioChunks |-> 0, totalBytes |-> 0]]
                 /\ activeStreams' = activeStreams \cup {c}
                 /\ task' = "setup"
                 /\ \E created \in BOOLEAN :
                      IF created
                      THEN /\ readyState' = [readyState EXCEPT ![c] = "CONNECTING"]
                           /\ activeConnections' =
                                MapSet(activeConnections, params.session,
                                       [connection |-> c,
                                        sessionId |-> params.session,
                                        slackChannel |-> params.channel,
                                        conversationId |-> params.conversation,
                                        createdAt |-> now])
                           /\ pending' = [conn |-> c, resolved |-> TRUE]
                      ELSE /\ pending' = [conn |-> c, resolved |-> FALSE]
                           /\ UNCHANGED <<readyState, activeConnections>>
                 /\ UNCHANGED closeCode
  /\ UNCHANGED <<hooked, sent, forwarded, closeRequests, frames, controls,
                 stoppedAt, now, todo, dgTodo, snap,
                 results, transcripts, notified, errors, slackFailures,
                 slackPending, delivered, clients, calls>>

\* a handler that attaches its listeners without sending the connected ack
ResumeNoAck ==
  /\ task = "setup"
  /\ LET c == pending.conn
     IN  IF pending.resolved
         THEN /\ connectionState' = [connectionState EXCEPT ![c].deepgramConnection = c]
              /\ hooked' = [hooked EXCEPT ![c] = TRUE]
              /\ UNCHANGED <<ws, closeCode, sent>>
         ELSE /\ ws' = [ws EXCEPT ![c] = "CLOSING"]
              /\ closeCode' = [closeCode EXCEPT ![c] = 1011]
              /\ UNCHANGED <<connectionState, sent, hooked>>
  /\ task' = "idle"
  /\ pending' = NoPending
  /\ UNCHANGED <<nextId, activeStreams, readyState, activeConnections,
                 forwarded, closeRequests, frames, controls, stoppedAt, now,
                 todo, dgTodo, snap, results, transcripts, notified, errors,
                 slackFailures, slackPending, delivered, clients, calls>>

\* a handler whose catch only logs
ResumeCatchLogs ==
  /\ task = "setup"
  /\ LET c == pending.conn
     IN  IF pending.resolved
         THEN /\ connectionState' = [connectionState EXCEPT ![c].deepgramConnection = c]
              /\ sent' = [sent EXCEPT ![c] = @ \cup {"connected"}]
              /\ hooked' = [hooked EXCEPT ![c] = TRUE]
              /\ UNCHANGED <<ws, closeCode>>
         ELSE UNCHANGED <<ws, closeCode, connectionState, sent, hooked>>
  /\ task' = "idle"
  /\ pending' = NoPending
  /\ UNCHANGED <<nextId, activeStreams, readyState, activeConnections,
                 forwarded, closeRequests, frames, controls, stoppedAt, now,
                 todo, dgTodo, snap, results, transcripts, notified, errors, slackFailures,
                 slackPending, delivered, clients, calls>>

\* the handler after its await: the rest of the try block, or the catch
Resume ==
  /\ task = "setup"
  /\ LET c == pending.conn
     IN  IF pending.resolved
         THEN /\ connectionState' = [connectionState EXCEPT ![c].deepgramConnection = c]
              /\ sent' = [sent EXCEPT ![c] = @ \cup {"connected"}]
              /\ hooked' = [hooked EXCEPT ![c] = TRUE]
              /\ UNCHANGED <<ws, closeCode>>
         ELSE /\ ws' = [ws EXCEPT ![c] = "CLOSING"]
              /\ closeCode' = [closeCode EXCEPT ![c] = 1011]
              /\ UNCHANGED <<connectionState, sent, hooked>>
  /\ task' = "idle"
  /\ pending' = NoPending
  /\ UNCHANGED <<nextId, activeStreams, readyState, activeConnections,
                 forwarded, closeRequests, frames, controls, stoppedAt, now,
                 todo, dgTodo, snap,
                 results, transcripts, notified, errors, slackFailures,
                 slackPending, delivered, clients, calls>>


\* ------------------------------------------------------------------------
\* The gateway: messages
\* ------------------------------------------------------------------------
\* a control branch whose start takes back a stop that is under way
TextMessageStartResumes(c, m) ==
  /\ task = "idle"
  /\ hooked[c]
  /\ ws[c] = "OPEN"
  /\ controls < MaxControl
  /\ Events < MaxEvents
  /\ controls' = controls + 1
  /\ LET h == connectionState[c].deepgramConnection
     IN  CASE m = "start" ->
                /\ sent' = [sent EXCEPT ![c] = @ \cup {"started"}]
                /\ readyState' = IF h # 0 /\ readyState[h] = "CLOSING"
                                 THEN [readyState EXCEPT ![h] = "OPEN"]
                                 ELSE readyState
                /\ UNCHANGED <<closeRequests, stoppedAt>>
           [] m = "stop" ->
                /\ IF h # 0
                   THEN /\ readyState' = connectionClose(readyState, h)
                        /\ closeRequests' = [closeRequests EXCEPT ![h] = @ + 1]
                   ELSE UNCHANGED <<readyState, closeRequests>>
                /\ sent' = [sent EXCEPT ![c] = @ \cup {"stopped"}]
                /\ stoppedAt' = [stoppedAt EXCEPT ![c] = IF @ = -1 THEN frames[c] ELSE @]
           [] m = "malformed" ->
                /\ sent' = [sent EXCEPT ![c] = @ \cup {"error"}]
                /\ UNCHANGED <<readyState, closeRequests, stoppedAt>>
           [] OTHER ->
                UNCHANGED <<sent, readyState, closeRequests, stoppedAt>>
  /\ UNCHANGED <<nextId, ws, closeCode, hooked, connectionState, activeStreams,
                 activeConnections, forwarded, frames, now, task, pending,
                 todo, dgTodo, snap,
                 results, transcripts, notified, errors, slackFailures,
                 slackPending, delivered, clients, calls>>

\* a listener whose catch only logs
TextMessageCatchLogs(c, m) ==
  /\ task = "idle"
  /\ hooked[c]
  /\ ws[c] = "OPEN"
  /\ controls < MaxControl
  /\ Events < MaxEvents
  /\ controls' = controls + 1
  /\ LET h == connectionState[c].deepgramConnection
     IN  CASE m = "start" ->
                /\ sent' = [sent EXCEPT ![c] = @ \cup {"started"}]
                /\ UNCHANGED <<readyState, closeRequests, stoppedAt>>
           [] m = "stop" ->
                /\ IF h # 0
                   THEN /\ readyState' = connectionClose(readyState, h)
                        /\ closeRequests' = [closeRequests EXCEPT ![h] = @ + 1]
                   ELSE UNCHANGED <<readyState, closeRequests>>
                /\ sent' = [sent EXCEPT ![c] = @ \cup {"stopped"}]
                /\ stoppedAt' = [stoppedAt EXCEPT ![c] = IF @ = -1 THEN frames[c] ELSE @]
           [] OTHER ->
                UNCHANGED <<sent, readyState, closeRequests, stoppedAt>>
  /\ UNCHANGED <<nextId, ws, closeCode, hooked, connectionState, activeStreams,
                 activeConnections, forwarded, frames, now, task, pending,
                 todo, dgTodo, snap,
                 results, transcripts, notified, errors, slackFailures,
                 slackPending, delivered, clients, calls>>

\* ws.on('message') with a string: the control branch of
\* handleWebSocketMessage.  A text that JSON.parse rejects throws; the
\* listener's catch answers with an error message.
TextMessage(c, m) ==
  /\ task = "idle"
  /\ hooked[c]
  /\ ws[c] = "OPEN"
  /\ controls < MaxControl
  /\ Events < MaxEvents
  /\ controls' = controls + 1
  /\ LET h == connectionState[c].deepgramConnection
     IN  CASE m = "start" ->
                /\ sent' = [sent EXCEPT ![c] = @ \cup {"started"}]
                /\ UNCHANGED <<readyState, closeRequests, stoppedAt>>
           [] m = "stop" ->
                /\ IF h # 0
                   THEN /\ readyState' = connectionClose(readyState, h)
                        /\ closeRequests' = [closeRequests EXCEPT ![h] = @ + 1]
                   ELSE UNCHANGED <<readyState, closeRequests>>
                /\ sent' = [sent EXCEPT ![c] = @ \cup {"stopped"}]
                /\ stoppedAt' = [stoppedAt EXCEPT ![c] = IF @ = -1 THEN frames[c] ELSE @]
           [] m = "malformed" ->
                /\ sent' = [sent EXCEPT ![c] = @ \cup {"error"}]
                /\ UNCHANGED <<readyState, closeRequests, stoppedAt>>
           [] OTHER ->
                UNCHANGED <<sent, readyState, closeRequests, stoppedAt>>
  /\ UNCHANGED <<nextId, ws, closeCode, hooked, connectionState, activeStreams,
                 activeConnections, forwarded, frames, now, task, pending,
                 todo, dgTodo, snap,
                 results, transcripts, notified, errors, slackFailures,
                 slackPending, delivered, clients, calls>>

\* an audio branch that counts a frame only when it forwards it
BinaryMessageCountsForwarded(c, length) ==
  /\ task = "idle"
  /\ hooked[c]
  /\ ws[c] = "OPEN"
  /\ SumOver(frames, ConnIds) < MaxFrames
  /\ Events < MaxEvents
  /\ frames' = [frames EXCEPT ![c] = @ + 1]
  /\ LET h == connectionState[c].deepgramConnection
     IN  IF validateAudioStream(length) /\ h # 0 /\ isConnected(h)
         THEN /\ connectionState' = [connectionState EXCEPT
                   ![c].audioChunks = @ + 1, ![c].totalBytes = @ + length]
              /\ forwarded' = [forwarded EXCEPT ![h] = @ + 1]
         ELSE UNCHANGED <<connectionState, forwarded>>
  /\ UNCHANGED <<nextId, ws, closeCode, hooked, activeStreams, readyState,
                 activeConnections, sent, closeRequests, controls, stoppedAt,
                 now, task, pending, todo, dgTodo, snap,
                 results, transcripts, notified, errors, slackFailures,
                 slackPending, delivered, clients, calls>>

\* ws.on('message') with a Buffer: the audio branch of handleWebSocketMessage.
\* Handle.sendAudio tests readyState === 1 once more before connection.send.
BinaryMessage(c, length) ==
  /\ task = "idle"
  /\ hooked[c]
  /\ ws[c] = "OPEN"
  /\ SumOver(frames, ConnIds) < MaxFrames
  /\ Events < MaxEvents
  /\ frames' = [frames EXCEPT ![c] = @ + 1]
  /\ LET h == connectionState[c].deepgramConnection
     IN  IF ~validateAudioStream(length)
         THEN UNCHANGED <<connectionState, forwarded>>
         ELSE /\ connectionState' = [connectionState EXCEPT
                   ![c].audioChunks = @ + 1, ![c].totalBytes = @ + length]
              /\ IF h # 0 /\ isConnected(h)
                 THEN forwarded' = [forwarded EXCEPT ![h] =
                                      IF readyState[h] = "OPEN" THEN @ + 1 ELSE @]
                 ELSE UNCHANGED forwarded
  /\ UNCHANGED <<nextId, ws, closeCode, hooked, activeStreams, readyState,
                 activeConnections, sent, closeRequests, controls, stoppedAt,
                 now, task, pending, todo, dgTodo, snap,
                 results, transcripts, notified, errors, slackFailures,
                 slackPending, delivered, clients, calls>>

\* ------------------------------------------------------------------------
\* The gateway: cleanup
\* ------------------------------------------------------------------------
\* cleanup without the test that the entry exists
cleanupUnguarded(c) ==
  LET h == connectionState[c].deepgramConnection
  IN  /\ readyState' = IF h # 0 THEN connectionClose(readyState, h) ELSE readyState
      /\ closeRequests' = IF h # 0 THEN [closeRequests EXCEPT ![h] = @ + 1]
                                   ELSE closeRequests
      /\ connectionState' = [connectionState EXCEPT ![c].isActive = FALSE]
      /\ activeStreams' = activeStreams \ {c}

\* cleanup without activeStreams.delete
cleanupKeepsEntry(c) ==
  IF c \in activeStreams
  THEN LET h == connectionState[c].deepgramConnection
       IN  /\ readyState' = IF h # 0 THEN connectionClose(readyState, h) ELSE readyState
           /\ closeRequests' = IF h # 0 THEN [closeRequests EXCEPT ![h] = @ + 1]
                                        ELSE closeRequests
           /\ connectionState' = [connectionState EXCEPT ![c].isActive = FALSE]
           /\ activeStreams' = activeStreams
  ELSE UNCHANGED <<readyState, closeRequests, connectionState, activeStreams>>

\* cleanup(connectionId, activeStreams)
cleanup(c) ==
  IF c \in activeStreams
  THEN LET h == connectionState[c].deepgramConnection
       IN  /\ readyState' = IF h # 0 THEN connectionClose(readyState, h) ELSE readyState
           /\ closeRequests' = IF h # 0 THEN [closeRequests EXCEPT ![h] = @ + 1]
                                        ELSE closeRequests
           /\ connectionState' = [connectionState EXCEPT ![c].isActive = FALSE]
           /\ activeStreams' = activeStreams \ {c}
  ELSE UNCHANGED <<readyState, closeRequests, connectionState, activeStreams>>

\* the 'close' event of a client connection; the listener that calls cleanup
\* exists only once setup has attached it
WsClose(c) ==
  /\ task = "idle"
  /\ ws[c] \in {"OPEN", "CLOSING"}
  /\ ws' = [ws EXCEPT ![c] = "CLOSED"]
  /\ IF hooked[c] THEN cleanup(c)
     ELSE UNCHANGED <<readyState, closeRequests, connectionState, activeStreams>>
  /\ UNCHANGED <<nextId, closeCode, hooked, activeConnections, sent, forwarded,
                 frames, controls, stoppedAt, now, task, pending, todo, dgTodo, snap,
                 results, transcripts, notified, errors, slackFailures,
                 slackPending, delivered, clients, calls>>

\* the 'error' event of a client connection; ws emits 'close' after it
WsError(c) ==
  /\ task = "idle"
  /\ ws[c] = "OPEN"
  /\ hooked[c]
  /\ ws' = [ws EXCEPT ![c] = "CLOSING"]
  /\ cleanup(c)
  /\ UNCHANGED <<nextId, closeCode, hooked, activeConnections, sent, forwarded,
                 frames, controls, stoppedAt, now, task, pending, todo, dgTodo, snap,
                 results, transcripts, notified, errors, slackFailures,
                 slackPending, delivered, clients, calls>>

\* ------------------------------------------------------------------------
\* Events of a backend stream
\* ------------------------------------------------------------------------
\* an 'open' listener on a stream that reconnects after it closed
DgReopen(c) ==
  /\ task = "idle"
  /\ readyState[c] \in {"CONNECTING", "CLOSED"}
  /\ readyState' = [readyState EXCEPT ![c] = "OPEN"]
  /\ UNCHANGED <<nextId, ws, closeCode, hooked, connectionState, activeStreams,
                 activeConnections, sent, forwarded, closeRequests, frames,
                 controls, stoppedAt, now, task, pending, todo, dgTodo, snap,
                 results, transcripts, notified, errors, slackFailures,
                 slackPending, delivered, clients, calls>>

\* an 'open' listener that sends the frames received while the stream was
\* opening
DgOpenFlushes(c) ==
  /\ task = "idle"
  /\ readyState[c] = "CONNECTING"
  /\ readyState' = [readyState EXCEPT ![c] = "OPEN"]
  /\ forwarded' = [forwarded EXCEPT ![c] = connectionState[c].audioChunks]
  /\ UNCHANGED <<nextId, ws, closeCode, hooked, connectionState, activeStreams,
                 activeConnections, sent, closeRequests, frames,
                 controls, stoppedAt, now, task, pending, todo, dgTodo, snap,
                 results, transcripts, notified, errors, slackFailures,
                 slackPending, delivered, clients, calls>>

\* connection.on('open')
DgOpen(c) ==
  /\ task = "idle"
  /\ readyState[c] = "CONNECTING"
  /\ readyState' = [readyState EXCEPT ![c] = "OPEN"]
  /\ UNCHANGED <<nextId, ws, closeCode, hooked, connectionState, activeStreams,
                 activeConnections, sent, forwarded, closeRequests, frames,
                 controls, stoppedAt, now, task, pending, todo, dgTodo, snap,
                 results, transcripts, notified, errors, slackFailures,
                 slackPending, delivered, clients, calls>>

\* a 'close' listener without activeConnections.delete
DgCloseKeepsEntry(c) ==
  /\ task = "idle"
  /\ readyState[c] \in {"CONNECTING", "OPEN", "CLOSING"}
  /\ readyState' = [readyState EXCEPT ![c] = "CLOSED"]
  /\ UNCHANGED <<nextId, ws, closeCode, hooked, connectionState, activeStreams,
                 activeConnections, sent, forwarded, closeRequests, frames,
                 controls, stoppedAt, now, task, pending, todo, dgTodo, snap,
                 results, transcripts, notified, errors, slackFailures,
                 slackPending, delivered, clients, calls>>

\* connection.on('close'): the end of a closing handshake, a close the
\* backend initiates, or a connection attempt that fails
DgClose(c) ==
  /\ task = "idle"
  /\ readyState[c] \in {"CONNECTING", "OPEN", "CLOSING"}
  /\ readyState' = [readyState EXCEPT ![c] = "CLOSED"]
  /\ activeConnections' = MapDelete(activeConnections, SessionOf(c))
  /\ UNCHANGED <<nextId, ws, closeCode, hooked, connectionState, activeStreams,
                 sent, forwarded, closeRequests, frames, controls, stoppedAt,
                 now, task, pending, todo, dgTodo, snap,
                 results, transcripts, notified, errors, slackFailures,
                 slackPending, delivered, clients, calls>>

\* ------------------------------------------------------------------------
\* Events of a backend stream: results and errors
\* ------------------------------------------------------------------------
\* the 'transcript' events a stream emits: the text of the first alternative
\* (empty, blank, or words) and the is_final flag
Results ==
  [transcript : {<<>>, <<" ">>, <<"h", "i">>}, is_final : BOOLEAN]

\* an onError callback that tells the client nothing
onErrorSilent(c) == sent

\* the onError callback of connection c: an error message if ws is open
onError(c) ==
  IF ws[c] = "OPEN" THEN [sent EXCEPT ![c] = @ \cup {"error"}] ELSE sent

\* a sendToSlack that lets the failure of sendMessage through
sendToSlackRethrows(ok) == IF ok THEN "resolved" ELSE "rejected"

\* sendToSlack: how its promise settles when slackService.sendMessage
\* succeeds (ok) or fails; the catch of sendToSlack logs every failure
sendToSlack(ok) == "resolved"

\* an onTranscript callback that sends whatever the state of ws
onTranscriptAlways(c) == [transcripts EXCEPT ![c] = @ + 1]

\* the onTranscript callback of connection c: a transcript message if ws is
\* open
onTranscript(c) ==
  IF ws[c] = "OPEN" THEN [transcripts EXCEPT ![c] = @ + 1] ELSE transcripts

\* a listener that hands every result to onTranscript
DispatchedAll(data) == TRUE

\* the listener's first test: a result without text returns at once
Dispatched(data) == data.transcript # <<>>

\* a Slack branch that does not look at is_final
NotifiesInterim(c, data) ==
  connectionState[c].params.channel # <<>> /\ Trim(data.transcript) # <<>>

\* a Slack branch that is skipped once the client connection is gone
NotifiesOpenClient(c, data) ==
  data.is_final /\ connectionState[c].params.channel # <<>>
    /\ Trim(data.transcript) # <<>> /\ ws[c] = "OPEN"

\* the Slack branch of the listener
Notifies(c, data) ==
  data.is_final /\ connectionState[c].params.channel # <<>>
    /\ Trim(data.transcript) # <<>>

\* a callback that finds its client through the service's Map
wsOfSession(h) ==
  IF SessionOf(h) \in DOMAIN activeConnections
  THEN activeConnections[SessionOf(h)].connection ELSE h

\* the ws that the onTranscript and onError closures of stream h captured:
\* the connection whose handler created the stream
wsOf(h) == h

\* the result object the listener builds from event number seq of stream h
Result(h, seq, data) ==
  [stream |-> h, sessionId |-> SessionOf(h), seq |-> seq,
   is_final |-> data.is_final, timestamp |-> now]

\* a send that puts the message ahead of those already sent
sendFirst(log, msg) == <<msg>> \o log

\* ws.send(message): the message follows those already sent
send(log, msg) == Append(log, msg)

\* connection.on('transcript') up to its last await: onTranscript, then the
\* call of sendToSlack, which runs to its await of slackService.sendMessage
DgTranscript(c, data) ==
  /\ task = "idle"
  /\ readyState[c] \in {"OPEN", "CLOSING"}
  /\ BackendEvents < MaxResults
  /\ Events < MaxEvents
  /\ results' = [results EXCEPT ![c] = @ + 1]
  /\ IF ~Dispatched(data)
     THEN UNCHANGED <<transcripts, delivered, notified, slackPending>>
     ELSE /\ transcripts' = onTranscript(c)
          /\ delivered' = IF ws[wsOf(c)] = "OPEN"
                          THEN [delivered EXCEPT ![wsOf(c)] =
                                  send(@, Result(c, results[c] + 1, data))]
                          ELSE delivered
          /\ IF Notifies(c, data)
             THEN /\ notified' = [notified EXCEPT ![c] = @ + 1]
                  /\ slackPending' = [slackPending EXCEPT ![c] = @ + 1]
             ELSE UNCHANGED <<notified, slackPending>>
  /\ UNCHANGED <<nextId, ws, closeCode, hooked, connectionState, activeStreams,
                 readyState, activeConnections, forwarded, closeRequests, frames,
                 controls, stoppedAt, now, task, pending, todo, dgTodo, snap,
                 sent, errors, slackFailures, clients, calls>>

\* slackService.sendMessage settles (ok: it succeeded) and sendToSlack and
\* the listener resume.  A rejection of sendToSlack would go to the
\* listener's catch, which calls onError.
SlackSettle(c, ok) ==
  /\ task = "idle"
  /\ slackPending[c] > 0
  /\ slackPending' = [slackPending EXCEPT ![c] = @ - 1]
  /\ slackFailures' = IF ok THEN slackFailures ELSE slackFailures + 1
  /\ IF sendToSlack(ok) = "rejected"
     THEN /\ sent' = onError(c)
          /\ errors' = [errors EXCEPT ![c] = @ + 1]
     ELSE UNCHANGED <<sent, errors>>
  /\ UNCHANGED <<nextId, ws, closeCode, hooked, connectionState, activeStreams,
                 readyState, activeConnections, forwarded, closeRequests, frames,
                 controls, stoppedAt, now, task, pending, todo, dgTodo, snap,
                 results, transcripts, notified, delivered, clients, calls>>

\* connection.on('error'): a fault the backend reports on the stream
DgError(c) ==
  /\ task = "idle"
  /\ readyState[c] \in {"CONNECTING", "OPEN", "CLOSING"}
  /\ BackendEvents < MaxResults
  /\ Events < MaxEvents
  /\ sent' = onError(c)
  /\ errors' = [errors EXCEPT ![c] = @ + 1]
  /\ UNCHANGED <<nextId, ws, closeCode, hooked, connectionState, activeStreams,
                 readyState, activeConnections, forwarded, closeRequests, frames,
                 controls, stoppedAt, now, task, pending, todo, dgTodo, snap,
                 results, transcripts, notified, slackFailures,
                 slackPending, delivered, clients, calls>>

\* ------------------------------------------------------------------------
\* Time and the periodic sweeps
\* ------------------------------------------------------------------------
Tick ==
  /\ task = "idle"
  /\ now < MaxTicks * TickMs
  /\ Events < MaxEvents
  /\ now' = now + TickMs
  /\ UNCHANGED <<nextId, ws, closeCode, hooked, connectionState, activeStreams,
                 readyState, activeConnections, sent, forwarded, closeRequests,
                 frames, controls, stoppedAt, task, pending, todo, dgTodo, snap,
                 results, transcripts, notified, errors, slackFailures,
                 slackPending, delivered, clients, calls>>

\* a sweep test that does not look at the age of the entry
InactiveOnly(c) == ~connectionState[c].isActive

\* the test of cleanupInactiveConnections on one entry
Inactive(c) ==
  ~connectionState[c].isActive \/ now - connectionState[c].startTime > maxAge

\* the test of cleanupConnections on one entry
Expired(s) == now - activeConnections[s].createdAt > maxAge

\* One turn of the loop of cleanupInactiveConnections, on the entry of key c;
\* rest are the keys still to visit.  keys, closes and allOld describe the
\* Map when the sweep began.
SweepTurn(c, rest, keys, closes, allOld) ==
  /\ IF c \in activeStreams /\ Inactive(c) THEN cleanup(c)
     ELSE UNCHANGED <<readyState, closeRequests, connectionState, activeStreams>>
  /\ todo' = rest
  /\ IF rest = {}
     THEN task' = "idle" /\ snap' = NoSnap
     ELSE task' = "sweep" /\ snap' = [keys |-> keys, closes |-> closes, allOld |-> allOld]
  /\ UNCHANGED <<nextId, ws, closeCode, hooked, activeConnections, sent,
                 forwarded, frames, controls, stoppedAt, now, pending, dgTodo,
                 results, transcripts, notified, errors, slackFailures,
                 slackPending, delivered, clients, calls>>

\* the first key of a Map in iteration order: insertion order, which is the
\* order of the connection ids
FirstKey(S) == CHOOSE c \in S : \A d \in S : c <= d

\* a sweep that can begin while another callback is part-way through
cleanupInactiveConnectionsReentrant ==
  /\ activeStreams # {}
  /\ LET c == FirstKey(activeStreams)
     IN  SweepTurn(c, activeStreams \ {c}, activeStreams, closeRequests,
                   \A d \in activeStreams : Inactive(d))

\* the setInterval callback of setupWebSocket: cleanupInactiveConnections
\* starts and makes the first turn of its loop (a sweep of an empty Map
\* does nothing)
cleanupInactiveConnections ==
  /\ task = "idle"
  /\ activeStreams # {}
  /\ LET c == FirstKey(activeStreams)
     IN  SweepTurn(c, activeStreams \ {c}, activeStreams, closeRequests,
                   \A d \in activeStreams : Inactive(d))

\* a further turn of the loop; the callback returns after the last one
cleanupInactiveConnectionsNext ==
  /\ task = "sweep"
  /\ LET c == FirstKey(todo)
     IN  SweepTurn(c, todo \ {c}, snap.keys, snap.closes, snap.allOld)

\* DeepgramService.closeConnection(sessionId)
closeConnection(s) ==
  IF s \in DOMAIN activeConnections
  THEN LET h == activeConnections[s].connection
       IN  /\ readyState' = connectionClose(readyState, h)
           /\ closeRequests' = [closeRequests EXCEPT ![h] = @ + 1]
           /\ activeConnections' = MapDelete(activeConnections, s)
  ELSE UNCHANGED <<readyState, closeRequests, activeConnections>>

\* One turn of the loop of cleanupConnections, on the entry of session id s
DgSweepTurn(s, rest, keys, closes, allOld) ==
  /\ IF s \in DOMAIN activeConnections /\ Expired(s) THEN closeConnection(s)
     ELSE UNCHANGED <<readyState, closeRequests, activeConnections>>
  /\ dgTodo' = rest
  /\ IF rest = {}
     THEN task' = "idle" /\ snap' = NoSnap
     ELSE task' = "dgsweep" /\ snap' = [keys |-> keys, closes |-> closes, allOld |-> allOld]
  /\ UNCHANGED <<nextId, ws, closeCode, hooked, connectionState, activeStreams,
                 sent, forwarded, frames, controls, stoppedAt, now, pending, todo,
                 results, transcripts, notified, errors, slackFailures,
                 slackPending, delivered, clients, calls>>

\* the backend streams the service's Map holds
RegisteredStreams == {activeConnections[s].connection : s \in DOMAIN activeConnections}

\* the setInterval callback of createDeepgramService: cleanupConnections
\* starts and makes the first turn of its loop
cleanupConnections ==
  /\ task = "idle"
  /\ \E s \in DOMAIN activeConnections :
       DgSweepTurn(s, DOMAIN activeConnections \ {s}, RegisteredStreams,
                   closeRequests, \A t \in DOMAIN activeConnections : Expired(t))

\* a further turn of the loop; the callback returns after the last one
cleanupConnectionsNext ==
  /\ task = "dgsweep"
  /\ \E s \in dgTodo :
       DgSweepTurn(s, dgTodo \ {s}, snap.keys, snap.closes, snap.allOld)

\* DELETE /api/transcription/sessions/:sessionId for a session that
\* getConnection finds (the route answers 404 otherwise)
RouteDelete(raw) ==
  /\ task = "idle"
  /\ LET s == sanitizeInput(Str(raw), 1000)
     IN  /\ s \in DOMAIN activeConnections
         /\ closeConnection(s)
  /\ UNCHANGED <<nextId, ws, closeCode, hooked, connectionState, activeStreams,
                 sent, forwarded, frames, controls, stoppedAt, now, task, pending,
                 todo, dgTodo, snap,
                 results, transcripts, notified, errors, slackFailures,
                 slackPending, delivered, clients, calls>>

\* getConnectionStats(activeStreams) of the gateway: the counts and the
\* per-connection summaries
getConnectionStats ==
  [totalConnections  |-> Cardinality(activeStreams),
   activeConnections |-> Cardinality({c \in activeStreams : connectionState[c].isActive}),
   connections       |-> {[id |-> c,
                           isActive |-> connectionState[c].isActive,
                           sessionId |-> connectionState[c].params.session]
                          : c \in activeStreams}]

\* ------------------------------------------------------------------------
\* The rate limiter
\* ------------------------------------------------------------------------
\* the clients the middleware tells apart (req.user.sub or req.ip)
ClientIds == {"a", "b"}

\* what isRateLimited takes for a client the Map does not hold; blockedAt
\* is undefined, -1 here
NewClient == [requests |-> <<>>, blocked |-> FALSE, blockedAt |-> -1]

\* the maxAge of the limiter's own cleanup, two hours in the code: a span
\* longer than twice the window
cleanupMaxAge == 2 * RateWindow + 1

\* client.requests.filter(time => now - time < windowMs)
InWindow(requests, windowMs) ==
  SelectSeq(requests, LAMBDA time : now - time < windowMs)

\* client.blocked && now - client.blockedAt < windowMs * 2
StillBlocked(client, windowMs) ==
  client.blocked /\ now - client.blockedAt < windowMs * 2

\* a count test that lets one request more through
OverLimitLax(requests, maxRequests) == Len(requests) > maxRequests

\* client.requests.length >= maxRequests
OverLimit(requests, maxRequests) == Len(requests) >= maxRequests

MainVars ==
  <<nextId, ws, closeCode, hooked, connectionState, activeStreams,
    readyState, activeConnections, sent, forwarded, closeRequests,
    frames, controls, stoppedAt, task, pending, todo, dgTodo, snap,
    results, transcripts, notified, errors, slackFailures,
    slackPending, delivered>>

\* RateLimiter.isRateLimited(clientId, maxRequests, windowMs), as the
\* middleware calls it.  The filter writes to the record the Map holds, so
\* it takes effect on the blocked path as well.
isRateLimited(clientId, maxRequests, windowMs) ==
  /\ Len(calls) < MaxCalls
  /\ LET client == IF clientId \in DOMAIN clients THEN clients[clientId]
                   ELSE NewClient
         kept   == InWindow(client.requests, windowMs)
     IN  IF StillBlocked(client, windowMs)
         THEN /\ clients' = MapSet(clients, clientId,
                                   [client EXCEPT !.requests = kept])
              /\ calls' = Append(calls, [client |-> clientId, time |-> now,
                                         limited |-> TRUE, blocking |-> FALSE])
         ELSE IF OverLimit(kept, maxRequests)
         THEN /\ clients' = MapSet(clients, clientId,
                                   [requests |-> kept, blocked |-> TRUE,
                                    blockedAt |-> now])
              /\ calls' = Append(calls, [client |-> clientId, time |-> now,
                                         limited |-> TRUE, blocking |-> TRUE])
         ELSE /\ clients' = MapSet(clients, clientId,
                                   [requests |-> Append(kept, now),
                                    blocked |-> FALSE,
                                    blockedAt |-> client.blockedAt])
              /\ calls' = Append(calls, [client |-> clientId, time |-> now,
                                         limited |-> FALSE, blocking |-> FALSE])
  /\ UNCHANGED now
  /\ UNCHANGED MainVars

\* Math.max(...client.requests, client.blockedAt || 0)
RECURSIVE MaxOf(_)
MaxOf(seq) ==
  IF seq = <<>> THEN 0
  ELSE LET m == MaxOf(Tail(seq)) IN IF Head(seq) > m THEN Head(seq) ELSE m

lastRequest(client) ==
  LET b == IF client.blockedAt > 0 THEN client.blockedAt ELSE 0
      m == MaxOf(client.requests)
  IN  IF client.requests = <<>> THEN b ELSE IF m > b THEN m ELSE b

\* the setInterval callback of RateLimiter.cleanup
RateLimiterCleanup ==
  /\ clients' = [k \in {j \in DOMAIN clients :
                          ~(now - lastRequest(clients[j]) > cleanupMaxAge)}
                   |-> clients[k]]
  /\ clients' # clients
  /\ UNCHANGED <<now, calls>>
  /\ UNCHANGED MainVars

\* a millisecond passes
ClockTick ==
  /\ now < MaxClock
  /\ now' = now + 1
  /\ UNCHANGED <<clients, calls>>
  /\ UNCHANGED MainVars

\* ------------------------------------------------------------------------
\* The specification
\* ------------------------------------------------------------------------
Next ==
  \/ \E q \in Queries : Connect(q)
  \/ Resume
  \/ \E c \in ConnIds, m \in ControlMessages : TextMessage(c, m)
  \/ \E c \in ConnIds, length \in FrameLengths : BinaryMessage(c, length)
  \/ \E c \in ConnIds : WsClose(c)
  \/ \E c \in ConnIds : WsError(c)
  \/ \E c \in ConnIds : DgOpen(c)
  \/ \E c \in ConnIds : DgClose(c)
  \/ \E c \in ConnIds, data \in Results : DgTranscript(c, data)
  \/ \E c \in ConnIds, ok \in BOOLEAN : SlackSettle(c, ok)
  \/ \E c \in ConnIds : DgError(c)
  \/ Tick
  \/ cleanupInactiveConnections
  \/ cleanupInactiveConnectionsNext
  \/ cleanupConnections
  \/ cleanupConnectionsNext
  \/ \E raw \in RouteSessionIds : RouteDelete(raw)

Spec == Init /\ [][Next]_vars

\* Time passes for as long as an entry of either Map has not yet reached
\* maxAge (further advances of the clock change nothing the sweeps test).
ClockAdvance ==
  /\ task = "idle"
  /\ \/ \E c \in activeStreams : ~(now - connectionState[c].startTime > maxAge)
     \/ \E s \in DOMAIN activeConnections : ~Expired(s)
  /\ now' = now + TickMs
  /\ UNCHANGED <<nextId, ws, closeCode, hooked, connectionState, activeStreams,
                 readyState, activeConnections, sent, forwarded, closeRequests,
                 frames, controls, stoppedAt, task, pending, todo, dgTodo, snap,
                 results, transcripts, notified, errors, slackFailures,
                 slackPending, delivered, clients, calls>>

\* the life of the entries of the two Maps: the steps that add, close or
\* remove them (audio and the results of the backend touch neither Map)
LifeNext ==
  \/ \E q \in Queries : Connect(q)
  \/ Resume
  \/ \E c \in ConnIds, m \in ControlMessages : TextMessage(c, m)
  \/ \E c \in ConnIds : WsClose(c)
  \/ \E c \in ConnIds : WsError(c)
  \/ \E c \in ConnIds : DgOpen(c)
  \/ \E c \in ConnIds : DgClose(c)
  \/ ClockAdvance
  \/ cleanupInactiveConnections
  \/ cleanupInactiveConnectionsNext
  \/ cleanupConnections
  \/ cleanupConnectionsNext
  \/ \E raw \in RouteSessionIds : RouteDelete(raw)

\* The scheduling of the event loop: the handler resumes after its await, a
\* sweep that has started runs to its end, the two setInterval timers keep
\* firing and time keeps passing.
LifeSpec ==
  /\ Init
  /\ [][LifeNext]_vars
  /\ WF_vars(Resume)
  /\ WF_vars(cleanupInactiveConnectionsNext)
  /\ WF_vars(cleanupConnectionsNext)
  /\ SF_vars(cleanupInactiveConnections)
  /\ SF_vars(cleanupConnections)
  /\ SF_vars(ClockAdvance)

\* the rate limiter on its own: calls of the middleware, the passing of
\* time and the limiter's cleanup
RateLimiterNext ==
  \/ \E clientId \in ClientIds : isRateLimited(clientId, RateMax, RateWindow)
  \/ RateLimiterCleanup
  \/ ClockTick

RateLimiterSpec == Init /\ [][RateLimiterNext]_vars


\* ------------------------------------------------------------------------
\* Properties
\* ------------------------------------------------------------------------
StreamLive(c) == readyState[c] \in {"CONNECTING", "OPEN"}

\* a connection that has completed setup, is open and is registered
LiveRegistered(c) == c \in activeStreams /\ hooked[c] /\ ws[c] = "OPEN"

\* C1: a session id maps to at most one active Session: no two live
\* registered connections, and no two open backend streams, carry the same
\* session id.
OneSessionPerId ==
  \A c, d \in ConnIds :
    c # d =>
      /\ ~(LiveRegistered(c) /\ LiveRegistered(d) /\ SessionOf(c) = SessionOf(d))
      /\ ~(readyState[c] = "OPEN" /\ readyState[d] = "OPEN" /\ SessionOf(c) = SessionOf(d))

\* C2: a connection that presents the session id of a live registered
\* connection is refused (it is not registered), and no step changes the
\* entry an existing session id maps to.
DuplicateCreateRefused ==
  [][ /\ \A c \in activeStreams' \ activeStreams : \A d \in ConnIds :
           LiveRegistered(d) => SessionOf(d) # connectionState'[c].params.session
      /\ \A s \in DOMAIN activeConnections \cap DOMAIN activeConnections' :
           activeConnections'[s] = activeConnections[s] ]_vars

\* C3: once the handling of a close has returned, whatever its cause (peer
\* close, socket error, setup failure), the connection has no Registry entry
\* and its backend stream has been asked to close.
CloseRemovesEntry ==
  \A c \in ConnIds :
    (task = "idle" /\ ws[c] \in {"CLOSING", "CLOSED"}) =>
      (c \notin activeStreams /\ ~StreamLive(c))

\* C4: a binary frame is forwarded to the backend stream exactly when its
\* length lies in 160..8192 and the stream is open at that moment; a frame
\* outside the range is never forwarded.
ForwardIffConnected ==
  [][ \A c \in ConnIds, n \in FrameLengths :
        BinaryMessage(c, n) =>
          IF n >= 160 /\ n <= 8192 /\ readyState[c] = "OPEN"
          THEN forwarded' = [forwarded EXCEPT ![c] = @ + 1]
          ELSE forwarded' = forwarded ]_vars

ForwardIffConnectedWitness ==
  \E c \in ConnIds : forwarded[c] = 1 /\ connectionState[c].audioChunks = 1

\* C5: once a stop message has been processed on a connection, no frame of
\* that connection reaches the backend stream any more; the stop is answered
\* with status stopped and the server does not close the client connection.
NoAudioAfterStop ==
  [][ \A c \in ConnIds :
        /\ stoppedAt[c] >= 0 => forwarded'[c] = forwarded[c]
        /\ TextMessage(c, "stop") => (stoppedAt'[c] >= 0 /\ ws'[c] = "OPEN")
        /\ stoppedAt'[c] >= 0 => ("stopped" \in sent'[c] /\ closeCode'[c] = 0) ]_vars

\* a valid frame has arrived after the stop, the client connection is open
NoAudioAfterStopWitness ==
  \E c \in ConnIds :
    /\ stoppedAt[c] >= 0
    /\ frames[c] > stoppedAt[c]
    /\ connectionState[c].audioChunks = frames[c]
    /\ ws[c] = "OPEN"

BadParams(q) ==
  LET p == sanitizeConnectionParams(q)
  IN  \/ p.channel = <<>>
      \/ p.session = <<>>
      \/ ~ChannelFormat(p.channel)
      \/ (p.language # <<>> /\ ~LanguageFormat(p.language))
      \/ (p.model # <<>> /\ p.model \notin validModels)

\* C7: a connection whose parameters fail validation is closed at once with
\* code 1008; it gets no connected ack, no Registry entry and no backend
\* stream.
InvalidParamsRejected ==
  [][ /\ \A q \in Queries :
           (Connect(q) /\ BadParams(q)) =>
             /\ closeCode'[nextId + 1] = 1008
             /\ ws'[nextId + 1] = "CLOSING"
             /\ task' = "idle"
             /\ UNCHANGED <<activeStreams, activeConnections, readyState, sent>>
      /\ \A c \in ConnIds :
           closeCode'[c] = 1008 =>
             /\ "connected" \notin sent'[c]
             /\ ~hooked'[c]
             /\ c \notin activeStreams'
             /\ readyState'[c] = "NONE"
             /\ ws'[c] # "OPEN" ]_vars

InvalidParamsRejectedWitness ==
  \E c \in ConnIds : closeCode[c] = 1008 /\ ws[c] = "CLOSED"

\* C8: when setup completes and the connected ack is sent, the Registry
\* holds an entry of the connection, and no other live registered connection
\* has its session id.
ActiveAndUnique ==
  [][ \A c \in ConnIds :
        ("connected" \in sent'[c] /\ "connected" \notin sent[c]) =>
          /\ c \in activeStreams'
          /\ \A d \in ConnIds \ {c} :
               LiveRegistered(d) => SessionOf(d) # connectionState'[c].params.session ]_vars

\* what a finished sweep of the gateway has done to the entries that were in
\* the Map when it began: all are gone, and each backend stream among them
\* has had one more close request, no other stream any
SweptOnce(keys, closes) ==
  /\ activeStreams' \cap keys = {}
  /\ \A c \in ConnIds :
       closeRequests'[c] =
         closes[c] + (IF c \in keys /\ connectionState[c].deepgramConnection # 0
                      THEN 1 ELSE 0)

\* the same for a finished sweep of the service
DgSweptOnce(keys, closes) ==
  /\ DOMAIN activeConnections' = {}
  /\ \A c \in ConnIds :
       closeRequests'[c] = closes[c] + (IF c \in keys THEN 1 ELSE 0)

SweepsSerialised ==
  [][ /\ task = "sweep" =>
           /\ cleanupInactiveConnectionsNext
           /\ nextId' = nextId
           /\ activeStreams \ activeStreams' \subseteq {FirstKey(todo)}
           /\ activeStreams' \subseteq activeStreams
           /\ activeConnections' = activeConnections
           /\ todo' = todo \ {FirstKey(todo)}
           /\ (task' = "sweep" => snap' = snap)
      /\ task = "dgsweep" =>
           /\ cleanupConnectionsNext
           /\ nextId' = nextId
           /\ activeStreams' = activeStreams
           /\ DOMAIN activeConnections' \subseteq DOMAIN activeConnections
           /\ Cardinality(dgTodo') = Cardinality(dgTodo) - 1
           /\ (task' = "dgsweep" => snap' = snap) ]_vars

\* a sweep of the gateway is part-way through its scan
SweepsSerialisedWitness ==
  task = "sweep" /\ todo # {} /\ Cardinality(snap.keys) = 2

\* C11: cleanup of a connection that has no Registry entry (already removed
\* by an earlier cleanup or by the sweep) changes nothing, closes nothing
\* and raises nothing; cleanup of a registered connection removes the entry,
\* so that a second cleanup finds the state the first one left.
RemoveAbsentNoOp ==
  [][ \A c \in ConnIds :
        /\ (hooked[c] /\ c \notin activeStreams /\ (WsClose(c) \/ WsError(c))) =>
             UNCHANGED <<connectionState, activeStreams, readyState, closeRequests,
                         activeConnections, sent, closeCode, errors>>
        /\ (hooked[c] /\ c \in activeStreams /\ (WsClose(c) \/ WsError(c))) =>
             c \notin activeStreams' ]_vars

\* the sweep has removed the entry of a connection that is still open: the
\* cleanup of its later close or error event finds no entry
RemoveAbsentNoOpWitness ==
  \E c \in ConnIds :
    /\ ws[c] = "OPEN" /\ hooked[c] /\ c \notin activeStreams
    /\ closeRequests[c] = 1 /\ task = "idle"

\* C12: when the close sequence of a connection runs again (the close event
\* after a socket error, or after the sweep removed the entry), the second
\* run neither asks the backend stream to close nor changes the Registry.
CloseSequenceOnce ==
  [][ \A c \in ConnIds :
        (hooked[c] /\ (ws[c] = "CLOSING" \/ c \notin activeStreams) /\ WsClose(c)) =>
          UNCHANGED <<closeRequests, readyState, activeStreams, activeConnections>> ]_vars

\* a connection whose error event has run the close sequence and whose
\* close event is due: no entry, and one close request on its stream
CloseSequenceOnceWitness ==
  \E c \in ConnIds :
    /\ ws[c] = "CLOSING" /\ hooked[c] /\ closeCode[c] = 0
    /\ c \notin activeStreams /\ closeRequests[c] = 1

NotifyOnlyFinalText ==
  [][ \A c \in ConnIds, data \in Results :
        (notified'[c] # notified[c] /\ DgTranscript(c, data)) =>
          /\ data.is_final
          /\ Trim(data.transcript) # <<>>
          /\ connectionState[c].params.channel # <<>> ]_vars

NotifyOnlyFinalTextWitness ==
  \E c \in ConnIds : notified[c] = 1 /\ transcripts[c] = 1 /\ slackFailures = 0

\* C16: when the notification fails, the dispatch raises nothing: onError is
\* not called, no error message is sent, the transcript message is sent as
\* it would have been, and the session is as it was.
SlackFailureAbsorbed ==
  [][ \A c \in ConnIds :
        (slackFailures' # slackFailures /\ SlackSettle(c, FALSE)) =>
          /\ errors' = errors /\ sent' = sent
          /\ transcripts' = transcripts /\ delivered' = delivered
          /\ UNCHANGED <<ws, closeCode, connectionState, activeStreams,
                         readyState, activeConnections, closeRequests>> ]_vars

SlackFailureAbsorbedWitness ==
  \E c \in ConnIds :
    /\ slackFailures = 1 /\ notified[c] = 1 /\ transcripts[c] = 1
    /\ errors[c] = 0 /\ "error" \notin sent[c] /\ ws[c] = "OPEN"

\* C17 as stated: every result event of a stream leads to one onTranscript
\* call, seen as one transcript message when the connection is open.
EveryResultDispatched ==
  [][ \A c \in ConnIds, data \in Results :
        (ws[c] = "OPEN" /\ results'[c] # results[c] /\ DgTranscript(c, data)) =>
          transcripts'[c] = transcripts[c] + 1 ]_vars

\* C17 as the code has it: a result event leads to one onTranscript call
\* exactly when its text is not empty.
ResultWithTextDispatched ==
  [][ \A c \in ConnIds, data \in Results :
        (ws[c] = "OPEN" /\ results'[c] # results[c] /\ DgTranscript(c, data)) =>
          transcripts'[c] = transcripts[c] + (IF data.transcript # <<>> THEN 1 ELSE 0) ]_vars

\* an interim or blank result has been dispatched: a transcript message and
\* no notification
ResultWithTextDispatchedWitness ==
  \E c \in ConnIds : results[c] = 1 /\ transcripts[c] = 1 /\ notified[c] = 0 /\ ws[c] = "OPEN"

\* C18: an error the backend reports on an open session sends an error
\* message and closes nothing: the stream, the connection and the Registry
\* are as they were.
BackendErrorSurfaced ==
  [][ \A c \in ConnIds :
        (ws[c] = "OPEN" /\ errors'[c] # errors[c] /\ DgError(c)) =>
          /\ "error" \in sent'[c]
          /\ UNCHANGED <<readyState, closeRequests, ws, closeCode, activeStreams,
                         connectionState, activeConnections>> ]_vars

BackendErrorSurfacedWitness ==
  \E c \in ConnIds :
    /\ errors[c] = 1 /\ "error" \in sent[c] /\ controls = 0
    /\ ws[c] = "OPEN" /\ readyState[c] = "OPEN" /\ c \in activeStreams

\* C19: when createStreamingConnection rejects, the client gets an error
\* message and the server does not close the connection.
BackendRejectionSurfaced ==
  [][ (task = "setup" /\ ~pending.resolved /\ Resume) =>
        /\ "error" \in sent'[pending.conn]
        /\ closeCode'[pending.conn] = 0 ]_vars

\* C20: a failure of connection setup closes the connection with code 1011,
\* and a connection closed with 1011 has no connected ack, then or later.
SetupFailureCloses1011 ==
  [][ /\ (task = "setup" /\ ~pending.resolved /\ Resume) =>
           /\ closeCode'[pending.conn] = 1011
           /\ ws'[pending.conn] = "CLOSING"
      /\ \A c \in ConnIds :
           closeCode'[c] = 1011 => "connected" \notin sent'[c] ]_vars

SetupFailureCloses1011Witness ==
  \E c \in ConnIds :
    closeCode[c] = 1011 /\ ws[c] = "CLOSED" /\ "connected" \notin sent[c]

\* the key a turn of the gateway's sweep visits
SweepKey == IF task = "idle" THEN FirstKey(activeStreams) ELSE FirstKey(todo)

\* C21: a turn of the sweep on a session whose age exceeds the limit removes
\* it from the Registry, asks its backend stream to close and closes its
\* client connection.
SweepClosesConnection ==
  [][ \A c \in ConnIds :
        (/\ task \in {"idle", "sweep"} /\ activeStreams # {}
         /\ (task = "sweep" => todo # {})
         /\ c = SweepKey /\ c \in activeStreams
         /\ now - connectionState[c].startTime > maxAge
         /\ (cleanupInactiveConnections \/ cleanupInactiveConnectionsNext)) =>
          /\ c \notin activeStreams'
          /\ connectionState[c].deepgramConnection # 0 =>
               closeRequests'[c] = closeRequests[c] + 1
          /\ ws'[c] \in {"CLOSING", "CLOSED"} ]_vars

Stalled(c) == readyState[c] = "CONNECTING" \/ slackPending[c] > 0

\* C23: while another session is stalled, a valid frame on a connection
\* whose stream is open is forwarded.
StalledSessionStallsNoOther ==
  [][ \A c, d \in ConnIds : \A n \in FrameLengths :
        (/\ c # d /\ Stalled(c)
         /\ n >= 160 /\ n <= 8192 /\ readyState[d] = "OPEN"
         /\ frames'[d] # frames[d] /\ BinaryMessage(d, n)) =>
          forwarded'[d] = forwarded[d] + 1 ]_vars

\* the first connection's stream has never opened, and a frame of the
\* second connection has been forwarded
StalledSessionStallsNoOtherWitness ==
  /\ readyState[1] = "CONNECTING" /\ LiveRegistered(1)
  /\ forwarded[2] = 1

\* C24: the gateway's stats agree with the Registry: every entry is marked
\* active, so the active count, the total and the number of summaries all
\* equal the number of entries.
StatsMatchRegistry ==
  /\ \A c \in activeStreams : connectionState[c].isActive
  /\ getConnectionStats.activeConnections = Cardinality(activeStreams)
  /\ getConnectionStats.totalConnections = Cardinality(activeStreams)
  /\ Cardinality(getConnectionStats.connections) = Cardinality(activeStreams)
  /\ \A e \in getConnectionStats.connections : e.isActive

\* one session registered, after the entry of another was removed
StatsMatchRegistryWitness ==
  /\ Cardinality(activeStreams) = 1
  /\ \E c \in ConnIds : hooked[c] /\ c \notin activeStreams /\ ~connectionState[c].isActive

\* C25: a frame that is empty, shorter than 160 bytes or longer than 8192
\* bytes has no effect: nothing is forwarded, the counters, the messages
\* sent, the connection, its entry and its stream are as they were.
InvalidFrameDropped ==
  [][ \A c \in ConnIds : \A n \in FrameLengths :
        (/\ (n = 0 \/ n < 160 \/ n > 8192)
         /\ frames'[c] # frames[c] /\ BinaryMessage(c, n)) =>
          UNCHANGED <<forwarded, connectionState, sent, ws, closeCode,
                      activeStreams, readyState, activeConnections,
                      closeRequests, errors, delivered>> ]_vars

InvalidFrameDroppedWitness ==
  \E c \in ConnIds :
    /\ frames[c] = 1 /\ connectionState[c].audioChunks = 0 /\ forwarded[c] = 0
    /\ LiveRegistered(c) /\ readyState[c] = "OPEN" /\ sent[c] = {"connected"}

\* C26: the connected ack comes after the registration and the opening of
\* the backend stream, and before any other message of the connection.
ConnectedAckFirst ==
  \A c \in ConnIds :
    /\ (sent[c] # {} \/ transcripts[c] > 0 \/ delivered[c] # <<>>) =>
         "connected" \in sent[c]
    /\ (task = "setup" /\ pending.conn = c /\ pending.resolved) =>
         /\ c \in activeStreams /\ readyState[c] = "CONNECTING"
         /\ sent[c] = {} /\ delivered[c] = <<>>
    /\ "connected" \in sent[c] => readyState[c] # "NONE"

\* a connection that got its ack and then a transcript
ConnectedAckFirstWitness ==
  \E c \in ConnIds :
    "connected" \in sent[c] /\ Len(delivered[c]) = 1 /\ "started" \in sent[c]

\* C27: every transcript message a connection has received comes from its
\* own backend stream and carries the session id it was opened with.
TranscriptsIsolated ==
  \A c \in ConnIds :
    \A i \in 1..Len(delivered[c]) :
      /\ delivered[c][i].stream = c
      /\ delivered[c][i].sessionId = connectionState[c].params.session

\* two connections with one session id: the first has received a result
\* produced after the second took over the entry of the session id
TranscriptsIsolatedWitness ==
  /\ LiveRegistered(1) /\ LiveRegistered(2) /\ SessionOf(1) = SessionOf(2)
  /\ SessionOf(1) \in DOMAIN activeConnections
  /\ activeConnections[SessionOf(1)].connection = 2
  /\ connectionState[2].startTime > 0
  /\ Len(delivered[1]) = 1 /\ delivered[1][1].timestamp >= connectionState[2].startTime

\* the steps of a stream's readyState that C28 names
NamedStreamSteps ==
  { <<"NONE", "CONNECTING">>, <<"CONNECTING", "OPEN">>, <<"OPEN", "CLOSING">>,
    <<"OPEN", "CLOSED">>, <<"CLOSING", "CLOSED">> }

\* the steps of a stream that is closed, or fails, before it has opened
EarlyCloseSteps ==
  { <<"CONNECTING", "CLOSING">>, <<"CONNECTING", "CLOSED">> }

\* C28 as stated: a stream only takes the steps Opening -> Open -> Closing
\* -> Closed and Open -> Closed.
StreamFollowsNamedSteps ==
  [][ \A c \in ConnIds :
        readyState'[c] # readyState[c] =>
          <<readyState[c], readyState'[c]>> \in NamedStreamSteps ]_vars

\* C28 as the code has it: a stream takes the named steps or closes before
\* it has opened; it never returns to Open, the connection never gets
\* another stream, and no frame is forwarded once the stream has left Open.
StreamNeverReopens ==
  [][ \A c \in ConnIds :
        /\ readyState'[c] # readyState[c] =>
             <<readyState[c], readyState'[c]>> \in NamedStreamSteps \cup EarlyCloseSteps
        /\ connectionState[c].deepgramConnection # 0 =>
             connectionState'[c].deepgramConnection = connectionState[c].deepgramConnection
        /\ readyState[c] \in {"CLOSING", "CLOSED"} => forwarded'[c] = forwarded[c] ]_vars

\* a valid frame received after the stream closed, and not forwarded
StreamNeverReopensWitness ==
  \E c \in ConnIds :
    /\ readyState[c] = "CLOSED" /\ ws[c] = "OPEN"
    /\ connectionState[c].audioChunks = 1 /\ forwarded[c] = 0

\* C29: a frame is handed to the backend only in the step that receives it,
\* and only if the stream is open then; no later step delivers a frame that
\* was dropped.
NoBufferedAudio ==
  [][ \A c \in ConnIds :
        forwarded'[c] # forwarded[c] =>
          /\ frames'[c] = frames[c] + 1
          /\ readyState[c] = "OPEN"
          /\ forwarded'[c] = forwarded[c] + 1 ]_vars

\* a valid frame arrived while the stream was opening; the stream is open
\* now and the frame has not been delivered
NoBufferedAudioWitness ==
  \E c \in ConnIds :
    /\ connectionState[c].audioChunks = 1 /\ forwarded[c] = 0
    /\ readyState[c] = "OPEN" /\ closeRequests[c] = 0

\* C30: start only sends the status started and config sends nothing;
\* neither changes the Registry, the counters, the parameters or the
\* backend stream.
StartAndConfigInert ==
  [][ \A c \in ConnIds :
        /\ (controls' # controls /\ TextMessage(c, "start")) =>
             /\ sent' = [sent EXCEPT ![c] = @ \cup {"started"}]
             /\ UNCHANGED <<connectionState, activeStreams, readyState,
                            activeConnections, closeRequests, forwarded, frames,
                            ws, closeCode, delivered>>
        /\ (controls' # controls /\ TextMessage(c, "config")) =>
             /\ sent' = sent
             /\ UNCHANGED <<connectionState, activeStreams, readyState,
                            activeConnections, closeRequests, forwarded, frames,
                            ws, closeCode, delivered>> ]_vars

\* a connection that has been sent both stopped and started, its stream
\* still closing
StartAndConfigInertWitness ==
  \E c \in ConnIds :
    /\ controls = 2 /\ {"started", "stopped"} \subseteq sent[c]
    /\ readyState[c] = "CLOSING" /\ LiveRegistered(c)

\* C31: a valid frame adds 1 to audioChunks and its length to totalBytes,
\* forwarded or not; no step lowers either counter.
CountersCountValidFrames ==
  [][ \A c \in ConnIds :
        /\ connectionState'[c].audioChunks >= connectionState[c].audioChunks
        /\ connectionState'[c].totalBytes >= connectionState[c].totalBytes
        /\ \A n \in FrameLengths :
             (/\ n >= 160 /\ n <= 8192
              /\ frames'[c] # frames[c] /\ BinaryMessage(c, n)) =>
               /\ connectionState'[c].audioChunks = connectionState[c].audioChunks + 1
               /\ connectionState'[c].totalBytes = connectionState[c].totalBytes + n ]_vars

\* two valid frames counted, the first received while the stream was
\* opening and not forwarded
CountersCountValidFramesWitness ==
  \E c \in ConnIds :
    /\ connectionState[c].audioChunks = 2 /\ forwarded[c] = 1
    /\ connectionState[c].totalBytes = 160 + 8192

\* C33: once the socket of a connection whose setup never completed is
\* closed, the connection has no Registry entry and no live backend stream.
AbortedSetupLeavesNothing ==
  \A c \in ConnIds :
    (ws[c] = "CLOSED" /\ ~hooked[c]) =>
      (c \notin activeStreams /\ ~StreamLive(c))

\* C34: whenever a backend stream is open, activeConnections maps its
\* session id to that stream.
OpenStreamRegistered ==
  \A c \in ConnIds :
    readyState[c] = "OPEN" =>
      /\ SessionOf(c) \in DOMAIN activeConnections
      /\ activeConnections[SessionOf(c)].connection = c

\* C35: a final result with non-blank text of a session that has a channel
\* is handed to the notification collaborator, whatever the state of the
\* client connection and of the Registry.
NotifyWithoutClient ==
  [][ \A c \in ConnIds, data \in Results :
        (/\ results'[c] # results[c] /\ DgTranscript(c, data)
         /\ data.is_final /\ Trim(data.transcript) # <<>>
         /\ connectionState[c].params.channel # <<>>) =>
          /\ notified'[c] = notified[c] + 1
          /\ slackPending'[c] = slackPending[c] + 1 ]_vars

\* a notification for a result that arrived after the client connection
\* closed and its entry was removed
NotifyWithoutClientWitness ==
  \E c \in ConnIds :
    /\ notified[c] = 1 /\ results[c] = 1 /\ transcripts[c] = 0
    /\ ws[c] = "CLOSED" /\ c \notin activeStreams /\ hooked[c]

\* what a control message that is refused or ignored leaves alone
ControlInert ==
  UNCHANGED <<ws, closeCode, hooked, connectionState, activeStreams,
              readyState, activeConnections, closeRequests, forwarded,
              frames, errors, delivered>>

\* C36: a text that is not valid JSON is answered with an error message and
\* a control message of unknown type with nothing; neither closes the
\* connection or changes the Registry, the counters or the backend stream.
BadControlOnlyAnswered ==
  [][ \A c \in ConnIds :
        /\ (controls' # controls /\ TextMessage(c, "malformed")) =>
             /\ sent' = [sent EXCEPT ![c] = @ \cup {"error"}]
             /\ ControlInert
        /\ (controls' # controls /\ TextMessage(c, "unknown")) =>
             /\ sent' = sent
             /\ ControlInert ]_vars

\* a connection that has received both messages and only been sent the
\* ack and the error
BadControlOnlyAnsweredWitness ==
  \E c \in ConnIds :
    /\ controls = 2 /\ sent[c] = {"connected", "error"} /\ errors[c] = 0
    /\ LiveRegistered(c) /\ readyState[c] = "OPEN"

\* C37: minChunkSize * audioChunks <= totalBytes <= maxChunkSize *
\* audioChunks, and audioChunks is at most the binary frames received.
CountersWithinBounds ==
  \A c \in ConnIds :
    /\ minChunkSize * connectionState[c].audioChunks <= connectionState[c].totalBytes
    /\ connectionState[c].totalBytes <= maxChunkSize * connectionState[c].audioChunks
    /\ connectionState[c].audioChunks <= frames[c]

\* two frames received, one of them too long: one chunk of 8192 bytes
CountersWithinBoundsWitness ==
  \E c \in ConnIds :
    /\ frames[c] = 2 /\ connectionState[c].audioChunks = 1
    /\ connectionState[c].totalBytes = maxChunkSize

\* the calls of one client that were let through in the window that ends
\* with call j
AdmittedInWindow(j) ==
  { i \in 1..j : /\ calls[i].client = calls[j].client
                 /\ ~calls[i].limited
                 /\ calls[j].time - calls[i].time < RateWindow }

\* what the calls so far show: no window of RateWindow holds more than
\* RateMax admitted calls of one client, and a client is refused for
\* 2 * RateWindow from the instant it was blocked
LimitsKept ==
  /\ \A j \in 1..Len(calls) :
       ~calls[j].limited => Cardinality(AdmittedInWindow(j)) <= RateMax
  /\ \A i, j \in 1..Len(calls) :
       (/\ i < j /\ calls[i].client = calls[j].client /\ calls[i].blocking
        /\ calls[j].time - calls[i].time < 2 * RateWindow) => calls[j].limited

\* C38: isRateLimited lets through at most maxRequests calls of a client in
\* any window of windowMs, refuses every call of a client within
\* 2 * windowMs of the instant it blocked it, and a call of one client
\* leaves the records of the other clients as they were.
RateLimitKept ==
  [][ /\ LimitsKept'
      /\ \A k \in ClientIds :
           (calls' # calls /\ isRateLimited(k, RateMax, RateWindow)) =>
             \A j \in ClientIds \ {k} :
               /\ j \in DOMAIN clients' <=> j \in DOMAIN clients
               /\ j \in DOMAIN clients => clients'[j] = clients[j] ]_vars

\* client a was let through twice, blocked, and refused again after its
\* two requests had left the window; client b was let through meanwhile
RateLimitKeptWitness ==
  /\ Len(calls) = 5
  /\ \A i \in {1, 2, 3, 5} : calls[i].client = "a"
  /\ ~calls[1].limited /\ ~calls[2].limited
  /\ calls[3].blocking
  /\ calls[4].client = "b" /\ ~calls[4].limited /\ calls[4].time > calls[3].time
  /\ calls[5].limited /\ calls[5].time - calls[2].time >= RateWindow

\* C32: every entry of the gateway's Map, and every entry of the service's
\* Map, is eventually removed.
EntriesEventuallyRemoved ==
  /\ \A c \in ConnIds : (c \in activeStreams) ~> (c \notin activeStreams)
  /\ \A c \in ConnIds : (c \in RegisteredStreams) ~> (c \notin RegisteredStreams)

\* the entry of a connection whose close handler never ran (its setup
\* failed) has been removed by the sweep, and a stream's entry has left the
\* service's Map
EntriesEventuallyRemovedWitness ==
  /\ \E c \in ConnIds :
       /\ ws[c] = "CLOSED" /\ ~hooked[c] /\ closeCode[c] = 1011
       /\ ~connectionState[c].isActive /\ c \notin activeStreams
  /\ \E d \in ConnIds : readyState[d] # "NONE" /\ d \notin RegisteredStreams
  /\ activeStreams = {} /\ activeConnections = <<>>

====
